---- MODULE Spec2Model ----
(***************************************************************************)
(* Model of the subtitle segmentation and timing engine of                 *)
(* app/services/caption.py (class Caption):                                *)
(*   create_subtitle_segments_english        (word mode)                   *)
(*   create_subtitle_segments_international  (sentence mode)               *)
(*                                                                         *)
(* Strings are sequences of Unicode code points (integers).  Timestamps    *)
(* are exact rationals [n, d] in lowest terms with d > 0, so 0.05 is 1/20  *)
(* and 0.5 is 1/2; the rounding of IEEE doubles is not modelled.           *)
(***************************************************************************)
EXTENDS Integers, Sequences, FiniteSets, TLC

(***************************************************************************)
(* Bounds of the explored input space.                                     *)
(***************************************************************************)
MaxTokens == 2
MaxLineLen == 2
MaxLines == 2
MaxTextLen == 2
MaxPathLen == 3
MaxImages == 2

(***************************************************************************)
(* Rational arithmetic for timestamps.                                     *)
(***************************************************************************)
Abs(x) == IF x < 0 THEN 0 - x ELSE x

RECURSIVE GCD(_, _)
GCD(a, b) == IF b = 0 THEN a ELSE GCD(b, a % b)

Rat(n, d) ==
    LET g == GCD(Abs(n), Abs(d))
        s == IF d < 0 THEN 0 - 1 ELSE 1
    IN  [n |-> (s * n) \div g, d |-> (s * d) \div g]

RAdd(x, y) == Rat(x.n * y.d + y.n * x.d, x.d * y.d)
RSub(x, y) == Rat(x.n * y.d - y.n * x.d, x.d * y.d)
RMul(x, y) == Rat(x.n * y.n, x.d * y.d)
RDiv(x, y) == Rat(x.n * y.d, x.d * y.n)
RLe(x, y) == x.n * y.d <= y.n * x.d
RLt(x, y) == x.n * y.d < y.n * x.d
RMax(x, y) == IF RLt(x, y) THEN y ELSE x
RInt(k) == [n |-> k, d |-> 1]

\* The 0.05 s guard gap and the 0.5 s minimum chunk duration.
GAP == Rat(1, 20)
MIN_DURATION == Rat(1, 2)

(***************************************************************************)
(* Characters and strings.                                                 *)
(***************************************************************************)
\* str.isspace(): the white-space code points below U+3100.
WhiteSpace ==
    (9 .. 13) \cup (28 .. 32) \cup {133, 160, 5760} \cup (8192 .. 8202)
        \cup {8232, 8233, 8239, 8287, 12288}

\* string.punctuation
AsciiPunctuation == (33 .. 47) \cup (58 .. 64) \cup (91 .. 96) \cup (123 .. 126)

\* extra_cjk of is_punctuation
ExtraCJK ==
    {183, 8212, 8216, 8217, 8220, 8221, 8229, 8230}
        \cup {12289, 12290} \cup (12298 .. 12305) \cup {12308, 12309}
        \cup {65072, 65073} \cup (65075 .. 65092)
        \cup {65281, 65283, 65284, 65285, 65288, 65289, 65290, 65292, 65293}
        \cup {65306, 65307, 65311, 65312, 65374, 65509}

\* unicodedata.category(ch).startswith("P"), tabulated for the code points
\* that occur in the explored texts: ! , . ? and the full-width comma and
\* ideographic full stop are Po; letters, digits, space, the CJK
\* ideographs and the currency and math signs are not.
UnicodeP == {33, 44, 46, 63, 12290, 65292}

IsSpace(ch) == ch \in WhiteSpace

IsPunctCharNoExtra(ch) == ch \in UnicodeP \/ ch \in AsciiPunctuation

IsPunctChar(ch) == ch \in UnicodeP \/ ch \in AsciiPunctuation \/ ch \in ExtraCJK

\* The loop over the characters, from position i on: False at the first
\* white-space or non-punctuation character, True at the end of the text.
RECURSIVE PunctScan(_, _)
PunctScan(text, i) ==
    IF i > Len(text)
    THEN TRUE
    ELSE IF IsSpace(text[i])
         THEN FALSE
         ELSE IF IsPunctChar(text[i]) THEN PunctScan(text, i + 1) ELSE FALSE

is_punctuation(text) == IF text = <<>> THEN FALSE ELSE PunctScan(text, 1)

RECURSIVE LStrip(_)
LStrip(s) ==
    IF Len(s) > 0 /\ IsSpace(s[1]) THEN LStrip(Tail(s)) ELSE s

RECURSIVE RStrip(_)
RStrip(s) ==
    IF Len(s) > 0 /\ IsSpace(s[Len(s)])
    THEN RStrip(SubSeq(s, 1, Len(s) - 1))
    ELSE s

\* str.strip()
Strip(s) == RStrip(LStrip(s))

\* str.split(): the maximal runs of non-white-space characters, in order.
RECURSIVE SplitFrom(_, _, _)
SplitFrom(s, cur, acc) ==
    IF s = <<>>
    THEN IF cur = <<>> THEN acc ELSE Append(acc, cur)
    ELSE IF IsSpace(Head(s))
         THEN SplitFrom(Tail(s), <<>>, IF cur = <<>> THEN acc ELSE Append(acc, cur))
         ELSE SplitFrom(Tail(s), Append(cur, Head(s)), acc)

Split(s) == SplitFrom(s, <<>>, <<>>)

\* "".join(list)
RECURSIVE Join(_)
Join(ss) == IF ss = <<>> THEN <<>> ELSE Head(ss) \o Join(Tail(ss))

\* any("\u4e00" <= char <= "\u9fff" for char in text)
IsCJK(text) == \E i \in 1 .. Len(text) : 19968 <= text[i] /\ text[i] <= 40959

(***************************************************************************)
(* Sentence mode: packing a token's text into parts, grouping the parts    *)
(* into chunks of `lines` parts and timing the chunks.                     *)
(***************************************************************************)
\* The character loop of the CJK branch.
RECURSIVE CJKLoopOffByOne(_, _, _, _)
CJKLoopOffByOne(chars, current_part, parts, max_length) ==
    IF chars = <<>>
    THEN IF current_part # <<>> THEN Append(parts, current_part) ELSE parts
    ELSE IF Len(current_part) + 1 >= max_length
         THEN CJKLoopOffByOne(Tail(chars), <<Head(chars)>>,
                              Append(parts, current_part), max_length)
         ELSE CJKLoopOffByOne(Tail(chars), Append(current_part, Head(chars)),
                              parts, max_length)

RECURSIVE CJKLoop(_, _, _, _)
CJKLoop(chars, current_part, parts, max_length) ==
    IF chars = <<>>
    THEN IF current_part # <<>> THEN Append(parts, current_part) ELSE parts
    ELSE IF Len(current_part) + 1 > max_length
         THEN CJKLoop(Tail(chars), <<Head(chars)>>, Append(parts, current_part),
                      max_length)
         ELSE CJKLoop(Tail(chars), Append(current_part, Head(chars)), parts,
                      max_length)

CJKPartsNoRemainder(text, max_length) ==
    LET parts == CJKLoop(text, <<>>, <<>>, max_length)
    IN  SubSeq(parts, 1, Len(parts) - 1)

CJKParts(text, max_length) == CJKLoop(text, <<>>, <<>>, max_length)

\* The word loop of the space-delimited branch.
RECURSIVE WordLoopNoSpace(_, _, _, _)
WordLoopNoSpace(words, current_part, parts, max_length) ==
    IF words = <<>>
    THEN IF current_part # <<>> THEN Append(parts, Strip(current_part)) ELSE parts
    ELSE LET word == Head(words) IN
         IF Len(current_part) + Len(word) > max_length /\ current_part # <<>>
         THEN WordLoopNoSpace(Tail(words), word,
                              Append(parts, Strip(current_part)), max_length)
         ELSE WordLoopNoSpace(Tail(words),
                              (IF current_part # <<>> THEN Append(current_part, 32)
                                                      ELSE current_part) \o word,
                              parts, max_length)

RECURSIVE WordLoop(_, _, _, _)
WordLoop(words, current_part, parts, max_length) ==
    IF words = <<>>
    THEN IF current_part # <<>> THEN Append(parts, Strip(current_part)) ELSE parts
    ELSE LET word == Head(words) IN
         IF Len(current_part) + 1 + Len(word) > max_length /\ current_part # <<>>
         THEN WordLoop(Tail(words), word, Append(parts, Strip(current_part)),
                       max_length)
         ELSE WordLoop(Tail(words),
                       (IF current_part # <<>> THEN Append(current_part, 32)
                                               ELSE current_part) \o word,
                       parts, max_length)

WordParts(text, max_length) == WordLoop(Split(text), <<>>, <<>>, max_length)

SplitParts(text, max_length) ==
    IF IsCJK(text) THEN CJKParts(text, max_length) ELSE WordParts(text, max_length)

\* [parts[i : i + lines] for i in range(0, len(parts), lines)].  range()
\* with a negative step is empty here; a step of 0 raises ValueError and is
\* handled by the caller.
RECURSIVE GroupFrom(_, _)
GroupFrom(parts, lines) ==
    IF parts = <<>>
    THEN <<>>
    ELSE IF Len(parts) <= lines
         THEN <<parts>>
         ELSE <<SubSeq(parts, 1, lines)>>
                  \o GroupFrom(SubSeq(parts, lines + 1, Len(parts)), lines)

GroupPartsOnePerChunk(parts, lines) == IF lines < 0 THEN <<>> ELSE GroupFrom(parts, 1)

GroupParts(parts, lines) == IF lines < 0 THEN <<>> ELSE GroupFrom(parts, lines)

\* len("".join(part_group))
GroupChars(part_group) == Len(Join(part_group))

RECURSIVE TotalChars(_)
TotalChars(segment_parts) ==
    IF segment_parts = <<>>
    THEN 0
    ELSE GroupChars(Head(segment_parts)) + TotalChars(Tail(segment_parts))

\* The duration given to one chunk.
SegmentDurationNoFloor(segment_chars, total_chars, duration, n_groups) ==
    IF total_chars > 0
    THEN RMul(Rat(segment_chars, total_chars), duration)
    ELSE RDiv(duration, RInt(n_groups))

SegmentDurationFixed(segment_chars, total_chars, duration, n_groups) ==
    MIN_DURATION

SegmentDurationEven(segment_chars, total_chars, duration, n_groups) ==
    IF total_chars > 0
    THEN RMax(RDiv(duration, RInt(n_groups)), MIN_DURATION)
    ELSE RDiv(duration, RInt(n_groups))

SegmentDuration(segment_chars, total_chars, duration, n_groups) ==
    IF total_chars > 0
    THEN RMax(RMul(Rat(segment_chars, total_chars), duration), MIN_DURATION)
    ELSE RDiv(duration, RInt(n_groups))

\* part_group + [""] * (lines - len(part_group))
PadLinesNone(part_group, lines) == part_group

PadLines(part_group, lines) ==
    part_group \o [i \in 1 .. (lines - Len(part_group)) |-> <<>>]

\* The timing loop over the chunks of one token: the segments it appends.
RECURSIVE TimeChunks(_, _, _, _, _, _)
TimeChunks(groups, current_time, total_chars, duration, n_groups, lines) ==
    IF groups = <<>>
    THEN <<>>
    ELSE LET part_group == Head(groups)
             segment_duration ==
                 SegmentDuration(GroupChars(part_group), total_chars, duration,
                                 n_groups)
             segment_start == current_time
             segment_end == RAdd(segment_start, segment_duration)
         IN  <<[text |-> PadLines(part_group, lines),
                start_ts |-> segment_start,
                end_ts |-> segment_end]>>
                 \o TimeChunks(Tail(groups), segment_end, total_chars, duration,
                               n_groups, lines)

\* The segments one caption token contributes (lines # 0).
CaptionSegmentsBlankPart(caption, max_length, lines) ==
    LET text == Strip(caption.text)
        duration == RSub(caption.end_ts, caption.start_ts)
        parts == IF text = <<>> THEN <<text>> ELSE SplitParts(text, max_length)
        segment_parts == GroupParts(parts, lines)
    IN  TimeChunks(segment_parts, caption.start_ts, TotalChars(segment_parts),
                   duration, Len(segment_parts), lines)

CaptionSegments(caption, max_length, lines) ==
    LET text == Strip(caption.text)
        duration == RSub(caption.end_ts, caption.start_ts)
        parts == SplitParts(text, max_length)
        segment_parts == GroupParts(parts, lines)
    IN  TimeChunks(segment_parts, caption.start_ts, TotalChars(segment_parts),
                   duration, Len(segment_parts), lines)

(***************************************************************************)
(* The overlap post-pass shared by both segmenters.                        *)
(***************************************************************************)
ClampEndNever(seg, next) == seg

ClampEndStrict(seg, next) ==
    IF RLt(next.start_ts, seg.end_ts)
    THEN [seg EXCEPT !.end_ts = RSub(next.start_ts, GAP)]
    ELSE seg

ClampEndNoGap(seg, next) ==
    IF RLe(next.start_ts, seg.end_ts)
    THEN [seg EXCEPT !.end_ts = next.start_ts]
    ELSE seg

ClampEnd(seg, next) ==
    IF RLe(next.start_ts, seg.end_ts)
    THEN [seg EXCEPT !.end_ts = RSub(next.start_ts, GAP)]
    ELSE seg

RECURSIVE PostPassFrom(_, _)
PostPassFrom(segs, i) ==
    IF i > Len(segs) - 1
    THEN segs
    ELSE PostPassFrom([segs EXCEPT ![i] = ClampEnd(segs[i], segs[i + 1])], i + 1)

PostPass(segs) == PostPassFrom(segs, 1)

(***************************************************************************)
(* State: the arguments of one call, the position in the called function   *)
(* and its locals.                                                         *)
(***************************************************************************)
VARIABLES
    mode,                   \* which segmenter is called
    captions,               \* argument: the caption tokens
    max_length,             \* argument
    lines,                  \* argument
    pc,                     \* "call", "loop", "post", "done"
    idx,                    \* 1-based position of the for loop over captions
    segments,               \* the list being built, the return value at "done"
    current_segment_texts,  \* word mode local
    current_line,           \* word mode local (0-based as in the code)
    segment_start_ts,       \* word mode local
    segment_end_ts,         \* word mode local
    result,                 \* "none", "returned" or "raised"
    seg_src                 \* history: the loop position that appended each segment

\* One call of Caption.is_punctuation.
VARIABLES
    p_text,                 \* argument
    p_result                \* "none" before the call, then "true" or "false"

\* One VideoBuilder (app/services/builder.py).
VARIABLES
    b_background,           \* self.background
    b_audio,                \* self.audio_file: "none" (None or ""), "set"
    b_captions,             \* self.captions: "none", "nofile", "file"
    b_media,                \* self.media_utils: "none", "set"
    b_output,               \* self.output_path
    b_last                  \* history: the last build_command or execute call

\* One request of GET /tts/file or GET /caption/file.
VARIABLES
    f_path,                 \* query parameter path
    f_response              \* the answer: endpoint, status, path of the file sent

\* One call of MultiImageVideoBuilder.build.
VARIABLES
    s_args,                 \* the arguments of build
    s_pc,                   \* "call", "durations", "render", "concat", "mux",
                            \* "cleanup", "done"
    s_idx,                  \* idx of the rendering loop
    s_dir,                  \* the working directory: "absent" or "present"
    s_trace,                \* history: the ffmpeg and copy steps started
    s_pending,              \* what the try block ended with, kept over finally
    s_cleanup,              \* history: what the finally block did
    s_result                \* "none", then "true", "false" or "raised"

punct_vars == <<p_text, p_result>>

slide_vars ==
    <<s_args, s_pc, s_idx, s_dir, s_trace, s_pending, s_cleanup, s_result>>

builder_vars == <<b_background, b_audio, b_captions, b_media, b_output, b_last>>

file_vars == <<f_path, f_response>>

caption_vars ==
    <<mode, captions, max_length, lines, pc, idx, segments,
      current_segment_texts, current_line, segment_start_ts, segment_end_ts,
      result, seg_src>>

vars == <<caption_vars, punct_vars, builder_vars, file_vars, slide_vars>>

\* What the steps of the segmenters leave alone.
not_caption_vars == <<punct_vars, builder_vars, file_vars, slide_vars>>

\* No call of is_punctuation under way.
PunctIdle == p_text = <<>> /\ p_result = "idle"

\* A VideoBuilder as __init__ leaves it, and no call made on it.
NoBackground == [type |-> "none", effect |-> "none"]

DefaultOutputPath == "output.mp4"

NoCall ==
    [op |-> "none", outcome |-> "none", error |-> "none",
     check |-> "none", cmd |-> <<>>,
     value |-> "none", makedirs |-> "not_reached", build |-> "not_called",
     lookup |-> "not_reached", ffmpeg |-> "not_invoked"]

BuilderInit ==
    /\ b_background = NoBackground
    /\ b_audio = "none"
    /\ b_captions = "none"
    /\ b_media = "none"
    /\ b_output = DefaultOutputPath
    /\ b_last = NoCall

\* No file request under way.
NoResponse == [endpoint |-> "none", status |-> "none", served |-> <<>>]

FileIdle == f_path = [absolute |-> FALSE, parts |-> <<>>] /\ f_response = NoResponse

\* No call of MultiImageVideoBuilder.build under way.
NoList == [given |-> FALSE, len |-> 0, positive |-> TRUE]

NoArgs ==
    [images |-> 0, audio_file |-> FALSE, captions_file |-> FALSE,
     image_durations |-> NoList, effect_configs |-> NoList,
     temp_dir |-> FALSE, keep_temps |-> FALSE]

SlideIdle ==
    /\ s_args = NoArgs
    /\ s_pc = "idle"
    /\ s_idx = 0
    /\ s_dir = "absent"
    /\ s_trace = <<>>
    /\ s_pending = "none"
    /\ s_cleanup = "none"
    /\ s_result = "none"

\* No segmenter call under way.
CaptionIdle ==
    /\ mode = "none"
    /\ captions = <<>>
    /\ max_length = 0
    /\ lines = 0
    /\ pc = "idle"
    /\ idx = 0
    /\ segments = <<>>
    /\ current_segment_texts = <<>>
    /\ current_line = 0
    /\ segment_start_ts = RInt(0)
    /\ segment_end_ts = RInt(0)
    /\ result = "none"
    /\ seg_src = <<>>

english_locals ==
    <<current_segment_texts, current_line, segment_start_ts, segment_end_ts>>

arguments == <<mode, captions, max_length, lines>>

(***************************************************************************)
(* The explored inputs.                                                    *)
(***************************************************************************)
Stamps == {RInt(0), RInt(1)}

\* "a", "bb", ","
WordTexts == {<<97>>, <<98, 98>>, <<44>>}

\* " ", "a bb ", "a b c", three CJK ideographs
SentenceTexts ==
    {<<32>>, <<97, 32, 98, 98, 32>>, <<97, 32, 98, 32, 99>>,
     <<20013, 25991, 23383>>}

TextsOf(m) == IF m = "english" THEN WordTexts ELSE SentenceTexts

TokensOf(m) == [text : TextsOf(m), start_ts : Stamps, end_ts : Stamps]

SeqsUpTo(S, n) == UNION {[1 .. k -> S] : k \in 0 .. n}

ConfigValues(max) == {0 - 1} \cup (0 .. max)

Token(text, s, e) == [text |-> text, start_ts |-> s, end_ts |-> e]

\* The worked examples of the specification.
HelloWorldCaptions ==
    <<Token(<<72, 101, 108, 108, 111>>, RInt(0), RInt(1)),
      Token(<<44>>, RInt(1), RInt(1)),
      Token(<<119, 111, 114, 108, 100>>, RInt(1), RInt(2)),
      Token(<<46>>, RInt(2), RInt(2))>>

HelloWorldLine ==
    <<72, 101, 108, 108, 111, 44, 32, 119, 111, 114, 108, 100, 46>>

CJKTenCaptions ==
    <<Token(<<20013, 25991, 23383, 24149, 27979, 35797, 26102, 38388, 20998,
              27573>>, RInt(0), RInt(10))>>

TwoChunkCaptions ==
    <<Token(<<97, 98, 32, 99, 100>>, RInt(0), RInt(10))>>

Examples ==
    {[mode |-> "english", captions |-> HelloWorldCaptions, max_length |-> 80,
      lines |-> 2],
     [mode |-> "english", captions |-> HelloWorldCaptions, max_length |-> 13,
      lines |-> 1],
     [mode |-> "international", captions |-> CJKTenCaptions, max_length |-> 4,
      lines |-> 1],
     [mode |-> "international", captions |-> CJKTenCaptions, max_length |-> 4,
      lines |-> 2],
     [mode |-> "international", captions |-> TwoChunkCaptions, max_length |-> 2,
      lines |-> 1]}

BoundedInputs ==
    UNION {[mode : {m}, captions : SeqsUpTo(TokensOf(m), MaxTokens),
            max_length : ConfigValues(MaxLineLen), lines : ConfigValues(MaxLines)]
           : m \in {"english", "international"}}

Inputs == BoundedInputs \cup Examples

Init ==
    /\ \E inp \in Inputs :
          /\ mode = inp.mode
          /\ captions = inp.captions
          /\ max_length = inp.max_length
          /\ lines = inp.lines
    /\ pc = "call"
    /\ idx = 0
    /\ segments = <<>>
    /\ current_segment_texts = <<>>
    /\ current_line = 0
    /\ segment_start_ts = RInt(0)
    /\ segment_end_ts = RInt(0)
    /\ result = "none"
    /\ seg_src = <<>>
    /\ PunctIdle
    /\ BuilderInit
    /\ FileIdle
    /\ SlideIdle

(***************************************************************************)
(* Word mode: create_subtitle_segments_english.                            *)
(***************************************************************************)
\* ["" for _ in range(lines)]
EmptyLines(n) == [i \in 1 .. n |-> <<>>]

\* any(current_segment_texts)
AnyText(texts) == \E i \in 1 .. Len(texts) : texts[i] # <<>>

\* The start of the segment opened by a flush.
NextSegmentStartEarly(start_ts) == RSub(start_ts, GAP)

NextSegmentStart(start_ts) == RAdd(start_ts, GAP)

\* The line-full test of the word loop.
LineTooLong(line, text, max_len) == Len(line \o text) > max_len

\* The text added to a line: a separating space if the line has content.
AddTextNoSpace(line, text) == line \o text

AddText(line, text) == (IF line # <<>> THEN Append(line, 32) ELSE line) \o text

\* The attachment of a punctuation token to the current line.
AttachPunctSpaced(line, text) == AddText(line, text)

AttachPunctDropped(line, text) == line

AttachPunct(line, text) == line \o text

\* Entry without the empty-input test: captions[0] raises IndexError.
EnglishEnterNoEmptyCheck ==
    /\ pc = "call"
    /\ mode = "english"
    /\ IF captions = <<>>
       THEN /\ pc' = "done"
            /\ result' = "raised"
            /\ UNCHANGED <<idx, english_locals>>
       ELSE /\ pc' = "loop"
            /\ idx' = 1
            /\ current_segment_texts' = EmptyLines(lines)
            /\ current_line' = 0
            /\ segment_start_ts' = captions[1].start_ts
            /\ segment_end_ts' = captions[1].end_ts
            /\ result' = result
    /\ UNCHANGED <<not_caption_vars, arguments, segments, seg_src>>

EnglishEnter ==
    /\ pc = "call"
    /\ mode = "english"
    /\ IF captions = <<>>
       THEN /\ pc' = "done"
            /\ result' = "returned"
            /\ UNCHANGED <<idx, english_locals>>
       ELSE /\ pc' = "loop"
            /\ idx' = 1
            /\ current_segment_texts' = EmptyLines(lines)
            /\ current_line' = 0
            /\ segment_start_ts' = captions[1].start_ts
            /\ segment_end_ts' = captions[1].end_ts
            /\ result' = result
    /\ UNCHANGED <<not_caption_vars, arguments, segments, seg_src>>

\* One iteration of the loop for a punctuation token.
EnglishPunct ==
    /\ pc = "loop"
    /\ mode = "english"
    /\ idx <= Len(captions)
    /\ is_punctuation(captions[idx].text)
    /\ segment_end_ts' = captions[idx].end_ts
    /\ current_segment_texts' =
          IF current_line < lines /\ current_segment_texts[current_line + 1] # <<>>
          THEN [current_segment_texts EXCEPT
                   ![current_line + 1] = AttachPunct(@, captions[idx].text)]
          ELSE current_segment_texts
    /\ idx' = idx + 1
    /\ UNCHANGED <<not_caption_vars, arguments, pc, segments, current_line, segment_start_ts,
                   result, seg_src>>

\* One iteration of the loop for any other token.
EnglishWord ==
    /\ pc = "loop"
    /\ mode = "english"
    /\ idx <= Len(captions)
    /\ ~is_punctuation(captions[idx].text)
    /\ LET text == captions[idx].text
           start_ts == captions[idx].start_ts
           end_ts == captions[idx].end_ts
           advanced ==
               IF /\ current_line < lines
                  /\ LineTooLong(current_segment_texts[current_line + 1], text,
                                 max_length)
               THEN current_line + 1
               ELSE current_line
           full == advanced >= lines
           texts == IF full THEN EmptyLines(lines) ELSE current_segment_texts
           line == IF full THEN 0 ELSE advanced
       IN  /\ segment_end_ts' = end_ts
           /\ segments' =
                 IF full
                 THEN Append(segments, [text |-> current_segment_texts,
                                        start_ts |-> segment_start_ts,
                                        end_ts |-> end_ts])
                 ELSE segments
           /\ seg_src' = IF full THEN Append(seg_src, idx) ELSE seg_src
           /\ segment_start_ts' =
                 IF full THEN NextSegmentStart(start_ts) ELSE segment_start_ts
           /\ current_line' = line
           /\ current_segment_texts' =
                 IF line < lines
                 THEN [texts EXCEPT ![line + 1] = AddText(@, text)]
                 ELSE texts
    /\ idx' = idx + 1
    /\ UNCHANGED <<not_caption_vars, arguments, pc, result>>

\* After the loop: the last segment, if it has any content.
EnglishFinal ==
    /\ pc = "loop"
    /\ mode = "english"
    /\ idx > Len(captions)
    /\ IF AnyText(current_segment_texts)
       THEN /\ segments' = Append(segments, [text |-> current_segment_texts,
                                             start_ts |-> segment_start_ts,
                                             end_ts |-> segment_end_ts])
            /\ seg_src' = Append(seg_src, idx)
       ELSE UNCHANGED <<segments, seg_src>>
    /\ pc' = "post"
    /\ UNCHANGED <<not_caption_vars, arguments, idx, english_locals, result>>

EnglishPostPass ==
    /\ pc = "post"
    /\ mode = "english"
    /\ segments' = PostPass(segments)
    /\ pc' = "done"
    /\ result' = "returned"
    /\ UNCHANGED <<not_caption_vars, arguments, idx, english_locals, seg_src>>

(***************************************************************************)
(* Sentence mode: create_subtitle_segments_international.                  *)
(***************************************************************************)
IntlEnter ==
    /\ pc = "call"
    /\ mode = "international"
    /\ IF captions = <<>>
       THEN /\ pc' = "done"
            /\ result' = "returned"
            /\ idx' = idx
       ELSE /\ pc' = "loop"
            /\ idx' = 1
            /\ result' = result
    /\ UNCHANGED <<not_caption_vars, arguments, segments, english_locals, seg_src>>

\* One iteration of the loop over captions.  range(0, len(parts), 0) raises
\* ValueError, which leaves the function without a return value.
IntlCaption ==
    /\ pc = "loop"
    /\ mode = "international"
    /\ idx <= Len(captions)
    /\ IF lines = 0
       THEN /\ pc' = "done"
            /\ result' = "raised"
            /\ UNCHANGED <<idx, segments, seg_src>>
       ELSE LET new == CaptionSegments(captions[idx], max_length, lines)
            IN  /\ segments' = segments \o new
                /\ seg_src' = seg_src \o [k \in 1 .. Len(new) |-> idx]
                /\ idx' = idx + 1
                /\ pc' = IF idx + 1 > Len(captions) THEN "post" ELSE "loop"
                /\ result' = result
    /\ UNCHANGED <<not_caption_vars, arguments, english_locals>>

IntlPostPass ==
    /\ pc = "post"
    /\ mode = "international"
    /\ segments' = PostPass(segments)
    /\ pc' = "done"
    /\ result' = "returned"
    /\ UNCHANGED <<not_caption_vars, arguments, idx, english_locals, seg_src>>

Next ==
    \/ EnglishEnter
    \/ EnglishPunct
    \/ EnglishWord
    \/ EnglishFinal
    \/ EnglishPostPass
    \/ IntlEnter
    \/ IntlCaption
    \/ IntlPostPass

Spec == Init /\ [][Next]_vars

(***************************************************************************)
(* Vocabulary of the properties.                                           *)
(***************************************************************************)
Returned == pc = "done" /\ result = "returned"

\* The segments as built by the loops, before the overlap post-pass.
PreCorrection == pc \in {"loop", "post"}

StartsNonDecreasing(caps) ==
    \A i \in 1 .. Len(caps) - 1 : RLe(caps[i].start_ts, caps[i + 1].start_ts)

\* A valid input: start_ts <= end_ts in every token, and the timestamps
\* non-decreasing from one token to the next.
ValidInput ==
    /\ \A i \in 1 .. Len(captions) : RLe(captions[i].start_ts, captions[i].end_ts)
    /\ StartsNonDecreasing(captions)
    /\ \A i \in 1 .. Len(captions) - 1 :
          RLe(captions[i].end_ts, captions[i + 1].end_ts)

ValidConfig == lines >= 1 /\ max_length >= 1

SegmentStartsOrdered ==
    \A i \in 1 .. Len(segments) - 1 :
        RLe(segments[i].start_ts, segments[i + 1].start_ts)

SegChars(seg) == Len(Join(seg.text))

RECURSIVE SumChars(_, _)
SumChars(t, k) ==
    IF k = 0
    THEN 0
    ELSE (IF seg_src[k] = t THEN SegChars(segments[k]) ELSE 0) + SumChars(t, k - 1)

\* The characters of all the chunks of token t.
TokenChars(t) == SumChars(t, Len(segments))

TokenDuration(t) == RSub(captions[t].end_ts, captions[t].start_ts)

\* The proportional share of the token's duration of chunk k.
Share(k) ==
    RMul(Rat(SegChars(segments[k]), TokenChars(seg_src[k])),
         TokenDuration(seg_src[k]))

SegDuration(k) == RSub(segments[k].end_ts, segments[k].start_ts)

IsEmptyLine(l) == l = <<>>
IsFilledLine(l) == l # <<>>

RECURSIVE LinesFrom(_, _)
LinesFrom(t, k) ==
    IF k > Len(segments)
    THEN <<>>
    ELSE (IF seg_src[k] = t THEN segments[k].text ELSE <<>>) \o LinesFrom(t, k + 1)

\* The display lines token t was packed into, in order, without the padding.
TokenParts(t) == SelectSeq(LinesFrom(t, 1), IsFilledLine)

CeilDiv(n, m) == (n + m - 1) \div m

(***************************************************************************)
(* C1: in both modes, with lines >= 1 and max_length >= 1 and any token    *)
(* sequence, every adjacent pair of returned segments satisfies            *)
(* segments[i].end_ts <= segments[i+1].start_ts.                           *)
(***************************************************************************)
C1_NonOverlap ==
    (Returned /\ ValidConfig) =>
        \A i \in 1 .. Len(segments) - 1 :
            RLe(segments[i].end_ts, segments[i + 1].start_ts)

\* A returned list in which the post-pass clamped an end_ts.
C1_Witness ==
    /\ Returned
    /\ ValidConfig
    /\ Len(segments) >= 2
    /\ \E i \in 1 .. Len(segments) - 1 :
          segments[i].end_ts = RSub(segments[i + 1].start_ts, GAP)

(***************************************************************************)
(* C2: in sentence mode, for any valid input and lines >= 1,               *)
(* max_length >= 1, the start_ts of the returned segments are              *)
(* non-decreasing, also from the last chunk of one token to the first      *)
(* chunk of the next.                                                      *)
(***************************************************************************)
C2_IntlStartsOrdered ==
    (Returned /\ mode = "international" /\ ValidInput /\ ValidConfig) =>
        SegmentStartsOrdered

(***************************************************************************)
(* C3: every segment returned by either segmenter, after the overlap       *)
(* post-pass, satisfies start_ts < end_ts, for any valid input.            *)
(***************************************************************************)
C3_PositiveDuration ==
    (Returned /\ ValidInput /\ ValidConfig) =>
        \A i \in 1 .. Len(segments) : RLt(segments[i].start_ts, segments[i].end_ts)

(***************************************************************************)
(* C4: in word mode, when the tokens' start_ts are non-decreasing, the     *)
(* start_ts of the returned segments are non-decreasing.                   *)
(***************************************************************************)
C4_EnglishStartsOrdered ==
    (Returned /\ mode = "english" /\ StartsNonDecreasing(captions)) =>
        SegmentStartsOrdered

\* A word-mode call that flushed a segment on a token starting when the
\* first token started.
C4_Witness ==
    /\ Returned
    /\ mode = "english"
    /\ ValidConfig
    /\ StartsNonDecreasing(captions)
    /\ Len(segments) >= 2
    /\ \E k \in 1 .. Len(segments) - 1 :
          captions[seg_src[k]].start_ts = captions[1].start_ts

(***************************************************************************)
(* C5: in both modes and for any lines >= 1, every returned segment's      *)
(* text list has exactly `lines` entries.                                  *)
(***************************************************************************)
C5_LineCount ==
    (Returned /\ lines >= 1) =>
        \A i \in 1 .. Len(segments) : Len(segments[i].text) = lines

\* A returned segment with an unused, empty last line.
C5_Witness ==
    /\ Returned
    /\ lines >= 2
    /\ \E i \in 1 .. Len(segments) :
          /\ Len(segments[i].text) = lines
          /\ segments[i].text[1] # <<>>
          /\ segments[i].text[lines] = <<>>

(***************************************************************************)
(* C6: in sentence mode every chunk is assigned a time span of at least    *)
(* 0.5 s, however small its proportional share.                            *)
(***************************************************************************)
C6_MinimumDuration ==
    (mode = "international" /\ PreCorrection) =>
        \A k \in 1 .. Len(segments) : RLe(MIN_DURATION, SegDuration(k))

\* A chunk whose proportional share is below 0.5 s and that got 0.5 s.
C6_Witness ==
    /\ mode = "international"
    /\ pc = "post"
    /\ ValidConfig
    /\ ValidInput
    /\ \E k \in 1 .. Len(segments) :
          /\ RLt(RInt(0), Share(k))
          /\ RLt(Share(k), MIN_DURATION)
          /\ SegDuration(k) = MIN_DURATION

(***************************************************************************)
(* C7: a call of either segmenter with max_length <= 0 or lines <= 0       *)
(* ends in an error and never returns a segment list.                      *)
(***************************************************************************)
C7_RejectsMalformedConfig ==
    (pc = "done" /\ (max_length <= 0 \/ lines <= 0)) => result = "raised"

(***************************************************************************)
(* C8: in word mode a punctuation token that follows a word on the         *)
(* current line is appended to that line with no separating space and      *)
(* without moving the line cursor; the tokens "Hello" "," "world" "."      *)
(* with max_length large enough give one segment whose first line is       *)
(* "Hello, world.".                                                        *)
(***************************************************************************)
C8_AttachStep ==
    ( /\ mode = "english"
      /\ pc = "loop"
      /\ idx <= Len(captions)
      /\ idx' = idx + 1
      /\ is_punctuation(captions[idx].text)
      /\ current_line < lines
      /\ current_segment_texts[current_line + 1] # <<>> )
    => /\ current_line' = current_line
       /\ current_segment_texts' =
             [current_segment_texts EXCEPT
                 ![current_line + 1] = @ \o captions[idx].text]
       /\ segments' = segments

C8_HelloWorld ==
    ( /\ Returned
      /\ mode = "english"
      /\ [i \in 1 .. Len(captions) |-> captions[i].text]
             = [i \in 1 .. 4 |-> HelloWorldCaptions[i].text]
      /\ max_length >= Len(HelloWorldLine)
      /\ lines >= 1 )
    => /\ Len(segments) = 1
       /\ segments[1].text[1] = HelloWorldLine

C8_PunctuationAttachment == [][C8_AttachStep]_vars /\ []C8_HelloWorld

C8_Witness ==
    /\ Returned
    /\ mode = "english"
    /\ captions = HelloWorldCaptions
    /\ Len(segments) = 1
    /\ segments[1].text[1] = HelloWorldLine

(***************************************************************************)
(* C9: in sentence mode a token containing CJK ideographs, of n            *)
(* characters after stripping, with max_length = m >= 1, is split into     *)
(* ceil(n/m) parts, all of length m except possibly the last.              *)
(***************************************************************************)
C9_CJKSplit ==
    (mode = "international" /\ pc \in {"loop", "post", "done"} /\ ValidConfig
        /\ result # "raised") =>
        \A t \in 1 .. Len(captions) :
            (t < idx /\ IsCJK(Strip(captions[t].text))) =>
                LET n == Len(Strip(captions[t].text))
                    p == CeilDiv(n, max_length)
                    parts == TokenParts(t)
                IN  /\ Len(parts) = p
                    /\ \A j \in 1 .. p - 1 : Len(parts[j]) = max_length
                    /\ Len(parts[p]) = n - max_length * (p - 1)

\* Ten CJK characters with max_length = 4: parts of 4, 4 and 2 characters.
C9_Witness ==
    /\ mode = "international"
    /\ pc = "post"
    /\ captions = CJKTenCaptions
    /\ max_length = 4
    /\ lines = 1
    /\ Len(segments) = 3
    /\ Len(segments[1].text[1]) = 4
    /\ Len(segments[2].text[1]) = 4
    /\ Len(segments[3].text[1]) = 2

(***************************************************************************)
(* C10: in sentence mode, before the overlap post-pass, each chunk of a    *)
(* token lasts max(0.5, chunk_chars / total_chars * (end_ts - start_ts))   *)
(* and the chunks follow one another from the token's start_ts, each       *)
(* starting where the previous one ends.                                   *)
(***************************************************************************)
C10_ProportionalTiming ==
    (mode = "international" /\ PreCorrection) =>
        \A k \in 1 .. Len(segments) :
            LET t == seg_src[k]
                first == k = 1 \/ seg_src[k - 1] # t
                start == IF first THEN captions[t].start_ts
                                  ELSE segments[k - 1].end_ts
            IN  /\ segments[k].start_ts = start
                /\ segments[k].end_ts = RAdd(start, RMax(MIN_DURATION, Share(k)))

\* A token [0, 10] in two chunks of equal length: [0, 5) and [5, 10).
C10_Witness ==
    /\ mode = "international"
    /\ pc = "post"
    /\ captions = TwoChunkCaptions
    /\ Len(segments) = 2
    /\ SegChars(segments[1]) = SegChars(segments[2])
    /\ segments[1].start_ts = RInt(0)
    /\ segments[1].end_ts = RInt(5)
    /\ segments[2].start_ts = RInt(5)
    /\ segments[2].end_ts = RInt(10)

(***************************************************************************)
(* C12: both segmenters return an empty segment list for an empty token    *)
(* list, for every max_length and lines.                                   *)
(***************************************************************************)
C12_EmptyInput ==
    captions = <<>> =>
        /\ pc \in {"call", "done"}
        /\ pc = "done" => (result = "returned" /\ segments = <<>>)

\* An empty list returned for an empty input and a malformed configuration.
C12_Witness ==
    /\ captions = <<>>
    /\ Returned
    /\ segments = <<>>
    /\ lines = 0
    /\ max_length = 0

(***************************************************************************)
(* C17: in word mode a segment flushed because the line cursor passed the  *)
(* last line has, before the post-pass, the end_ts of the last token       *)
(* placed in it, not the end_ts of the token that triggered the flush.     *)
(* (A flushed segment with any text holds the token just before the        *)
(* triggering one as its last token.)                                      *)
(***************************************************************************)
C17_FlushEndIsLastPlaced ==
    (mode = "english" /\ PreCorrection /\ ValidConfig /\ ValidInput) =>
        \A k \in 1 .. Len(segments) :
            (seg_src[k] <= Len(captions) /\ AnyText(segments[k].text)) =>
                segments[k].end_ts = captions[seg_src[k] - 1].end_ts

(***************************************************************************)
(* C18: in word mode a non-punctuation token is appended to a line that    *)
(* already has content only if the line's length plus one space plus the   *)
(* token's length does not exceed max_length.                              *)
(***************************************************************************)
C18_AppendStep ==
    ( /\ mode = "english"
      /\ pc = "loop"
      /\ idx <= Len(captions)
      /\ idx' = idx + 1
      /\ ValidConfig
      /\ ~is_punctuation(captions[idx].text)
      /\ current_line < lines
      /\ current_segment_texts[current_line + 1] # <<>>
      /\ current_line' = current_line
      /\ Len(segments') = Len(segments) )
    => Len(current_segment_texts[current_line + 1]) + 1 + Len(captions[idx].text)
           <= max_length

C18_AppendWithinLimit == [][C18_AppendStep]_vars

(***************************************************************************)
(* C19: in sentence mode, for max_length >= 1, every part has length       *)
(* <= max_length and no splitting unit is split across two parts.          *)
(* As amended: a part may exceed max_length only when it is a single       *)
(* whitespace-delimited word that is itself longer than max_length.        *)
(***************************************************************************)
RECURSIVE WordsOfParts(_)
WordsOfParts(parts) ==
    IF parts = <<>> THEN <<>> ELSE Split(Head(parts)) \o WordsOfParts(Tail(parts))

\* The units of token t come out whole and in order.
UnitsKept(t) ==
    LET text == Strip(captions[t].text) IN
    IF IsCJK(text)
    THEN Join(TokenParts(t)) = text
    ELSE WordsOfParts(TokenParts(t)) = Split(text)

IsSingleWord(part) == \A i \in 1 .. Len(part) : ~IsSpace(part[i])

IntlProcessed(t) ==
    /\ mode = "international"
    /\ pc \in {"loop", "post", "done"}
    /\ result # "raised"
    /\ t < idx

C20_PostPassStep ==
    (pc = "post" /\ pc' = "done") =>
        /\ Len(segments') = Len(segments)
        /\ \A i \in 1 .. Len(segments) :
              /\ segments'[i].text = segments[i].text
              /\ segments'[i].start_ts = segments[i].start_ts
              /\ segments'[i].end_ts =
                    IF /\ i < Len(segments)
                       /\ RLe(segments[i + 1].start_ts, segments[i].end_ts)
                    THEN RSub(segments[i + 1].start_ts, GAP)
                    ELSE segments[i].end_ts
              /\ RLe(segments'[i].end_ts, segments[i].end_ts)

C20_PostPassFrame == [][C20_PostPassStep]_vars

\* A returned list with one end_ts clamped and another pair left alone.
C20_Witness ==
    /\ Returned
    /\ Len(segments) >= 3
    /\ \E i \in 1 .. Len(segments) - 1 :
          segments[i].end_ts = RSub(segments[i + 1].start_ts, GAP)
    /\ \E j \in 1 .. Len(segments) - 1 :
          RLt(segments[j].end_ts, RSub(segments[j + 1].start_ts, GAP))

(***************************************************************************)
(* The punctuation classifier on its own: one call of is_punctuation on    *)
(* a text over white space, ASCII and CJK punctuation, currency signs, a   *)
(* letter and an ideograph.                                                *)
(***************************************************************************)
\* space, ideographic space, ! ? $, ideographic full stop, full-width
\* comma, full-width yen sign, a, one CJK ideograph
PunctAlphabet == {32, 12288, 33, 63, 36, 12290, 65292, 65509, 97, 20013}

PunctTexts == SeqsUpTo(PunctAlphabet, MaxTextLen)

PunctInit ==
    /\ p_text \in PunctTexts
    /\ p_result = "none"
    /\ CaptionIdle
    /\ BuilderInit
    /\ FileIdle
    /\ SlideIdle

IsPunctuationCall ==
    /\ p_result = "none"
    /\ p_result' = IF is_punctuation(p_text) THEN "true" ELSE "false"
    /\ UNCHANGED <<p_text, caption_vars, builder_vars, file_vars, slide_vars>>

PunctNext == IsPunctuationCall

PunctSpec == PunctInit /\ [][PunctNext]_vars

Effects == {"ken_burns", "pan", "other"}
AudioArgs == {"empty", "file"}
CaptionArgs == {"nofile", "file"}
OutputPaths == {DefaultOutputPath, "out/o.mp4"}
InfoOutcomes == {"duration", "no_duration", "raises"}
MakedirsOutcomes == {"ok", "fails"}
FfmpegOutcomes == {"success", "failure", "raises"}

\* "not x" for None and for the empty string
Falsy(x) == x \in {"none", "empty"}

Raise(error, check) ==
    [outcome |-> "raised", error |-> error, check |-> check, cmd |-> <<>>]

ConfigErrorNoBackgroundCheck(bg, audio, caps) ==
    IF Falsy(audio) /\ caps = "none" THEN "inputs"
    ELSE IF bg.type = "image" /\ Falsy(audio) THEN "image_audio"
    ELSE IF bg.type = "video" /\ Falsy(audio) /\ caps = "none" THEN "video_inputs"
    ELSE "none"

\* The four checks on the configuration, in order; "none" when all pass.
ConfigError(bg, audio, caps) ==
    IF bg.type = "none" THEN "background"
    ELSE IF Falsy(audio) /\ caps = "none" THEN "inputs"
    ELSE IF bg.type = "image" /\ Falsy(audio) THEN "image_audio"
    ELSE IF bg.type = "video" /\ Falsy(audio) /\ caps = "none" THEN "video_inputs"
    ELSE "none"

\* The audio duration lookup, made only when an audio file is set.
AudioError(audio, media, info) ==
    IF Falsy(audio) THEN "none"
    ELSE IF media = "none" THEN "media"
    ELSE IF info = "raises" THEN "audio_info"
    ELSE IF info = "no_duration" THEN "duration"
    ELSE "none"

BaseCommand == <<"ffmpeg", "-y", "-hide_banner", "-loglevel", "level+info", "-report">>

BackgroundInput(bg) ==
    IF bg.type = "image"
    THEN <<"-loop", "1", "-t", "duration", "-r", "25", "-i", "bg.jpg">>
    ELSE IF bg.type = "video" THEN <<"-i", "bg.mp4">> ELSE <<>>

BackgroundFilter(bg) ==
    IF bg.type = "image"
    THEN IF bg.effect = "ken_burns" THEN <<"[0]zoompan[bg]">>
         ELSE IF bg.effect = "pan" THEN <<"[0]crop[bg]">>
         ELSE <<"[0]scale[bg]">>
    ELSE IF bg.type = "video" THEN <<"[0]scale[bg]">> ELSE <<>>

\* _build_subtitles_filter: a chain only for captions that name a file
SubtitlesFilter(caps) == IF caps = "file" THEN <<"[bg]subtitles[v]">> ELSE <<>>

\* ";".join(filter_parts)
JoinFilters(parts) ==
    IF Len(parts) = 1 THEN parts[1]
    ELSE IF parts = <<"[0]zoompan[bg]", "[bg]subtitles[v]">> THEN "[0]zoompan[bg];[bg]subtitles[v]"
    ELSE IF parts = <<"[0]crop[bg]", "[bg]subtitles[v]">> THEN "[0]crop[bg];[bg]subtitles[v]"
    ELSE "[0]scale[bg];[bg]subtitles[v]"

Command(bg, audio, caps, out) ==
    LET filter_parts == BackgroundFilter(bg) \o SubtitlesFilter(caps)
    IN  BaseCommand
        \o BackgroundInput(bg)
        \o (IF Falsy(audio) THEN <<>> ELSE <<"-i", "a.wav">>)
        \o (IF filter_parts = <<>> THEN <<>>
            ELSE <<"-filter_complex", JoinFilters(filter_parts)>>)
        \o <<"-map", IF SubtitlesFilter(caps) = <<>> THEN "[bg]" ELSE "[v]">>
        \o (IF Falsy(audio) THEN <<>> ELSE <<"-map", "1:a">>)
        \o <<"-c:v", "libx264", "-preset", "ultrafast", "-crf", "23", "-pix_fmt", "yuv420p">>
        \o (IF Falsy(audio) THEN <<>> ELSE <<"-c:a", "aac", "-b:a", "192k">>)
        \o <<"-shortest", out>>

\* build_command: info is what get_audio_info answers, mk what os.makedirs
\* does.
BuildResult(bg, audio, caps, media, out, info, mk) ==
    LET ce == ConfigError(bg, audio, caps)
        ae == AudioError(audio, media, info)
    IN  IF ce # "none" THEN Raise("ValueError", ce)
        ELSE IF ae # "none"
             THEN Raise(IF ae = "audio_info" THEN "Exception" ELSE "ValueError", ae)
        ELSE IF mk = "fails" THEN Raise("OSError", "makedirs")
        ELSE IF bg.type = "image" /\ Falsy(audio)
             THEN Raise("ValueError", "image_duration")
        ELSE [outcome |-> "returned", error |-> "none", check |-> "none",
              cmd |-> Command(bg, audio, caps, out)]

\* The duration lookup of execute: audio first, else the video background.
LookupOf(bg, audio, lookup) ==
    IF ~Falsy(audio) \/ bg.type = "video"
    THEN IF lookup = "raises" THEN "raised"
         ELSE IF lookup = "duration" THEN "ok" ELSE "no_duration"
    ELSE "not_needed"

ExecuteResultPropagates(bg, audio, caps, media, out, mk1, info, mk2, lookup, ff) ==
    LET call == [NoCall EXCEPT !.op = "execute", !.outcome = "returned", !.value = "false"]
        b == BuildResult(bg, audio, caps, media, out, info, mk2)
        lk == LookupOf(bg, audio, lookup)
    IN  IF media = "none" THEN call
        ELSE IF mk1 = "fails" THEN [call EXCEPT !.makedirs = "failed"]
        ELSE IF b.outcome = "raised"
             THEN [call EXCEPT !.makedirs = "ok", !.build = "raised", !.outcome = "raised",
                               !.value = "none", !.error = b.error, !.check = b.check]
        ELSE IF lk = "raised"
             THEN [call EXCEPT !.makedirs = "ok", !.build = "ok", !.cmd = b.cmd,
                               !.lookup = lk]
        ELSE [call EXCEPT !.makedirs = "ok", !.build = "ok", !.cmd = b.cmd,
                          !.lookup = lk,
                          !.ffmpeg = IF ff = "raises" THEN "raised" ELSE ff,
                          !.value = IF ff = "success" THEN "true" ELSE "false"]

\* execute: mk1 is its own os.makedirs, info and mk2 are build_command's
\* collaborators, lookup is the second duration lookup, ff the answer of
\* execute_ffmpeg_command.  Every exception of the try block becomes False.
ExecuteResult(bg, audio, caps, media, out, mk1, info, mk2, lookup, ff) ==
    LET call == [NoCall EXCEPT !.op = "execute", !.outcome = "returned", !.value = "false"]
        b == BuildResult(bg, audio, caps, media, out, info, mk2)
        lk == LookupOf(bg, audio, lookup)
    IN  IF media = "none" THEN call
        ELSE IF mk1 = "fails" THEN [call EXCEPT !.makedirs = "failed"]
        ELSE IF b.outcome = "raised"
             THEN [call EXCEPT !.makedirs = "ok", !.build = "raised",
                               !.error = b.error, !.check = b.check]
        ELSE IF lk = "raised"
             THEN [call EXCEPT !.makedirs = "ok", !.build = "ok", !.cmd = b.cmd,
                               !.lookup = lk]
        ELSE [call EXCEPT !.makedirs = "ok", !.build = "ok", !.cmd = b.cmd,
                          !.lookup = lk,
                          !.ffmpeg = IF ff = "raises" THEN "raised" ELSE ff,
                          !.value = IF ff = "success" THEN "true" ELSE "false"]

Setter(op) == [NoCall EXCEPT !.op = op, !.outcome = "returned"]

SetMediaUtils ==
    /\ b_media' = "set"
    /\ b_last' = Setter("set_media_utils")
    /\ UNCHANGED <<b_background, b_audio, b_captions, b_output>>
    /\ UNCHANGED <<caption_vars, punct_vars, file_vars, slide_vars>>

SetBackgroundImage ==
    /\ \E effect \in Effects :
          b_background' = [type |-> "image", effect |-> effect]
    /\ b_last' = Setter("set_background_image")
    /\ UNCHANGED <<b_audio, b_captions, b_media, b_output>>
    /\ UNCHANGED <<caption_vars, punct_vars, file_vars, slide_vars>>

SetBackgroundVideo ==
    /\ b_background' = [type |-> "video", effect |-> "none"]
    /\ b_last' = Setter("set_background_video")
    /\ UNCHANGED <<b_audio, b_captions, b_media, b_output>>
    /\ UNCHANGED <<caption_vars, punct_vars, file_vars, slide_vars>>

SetAudio ==
    /\ \E file_path \in AudioArgs : b_audio' = file_path
    /\ b_last' = Setter("set_audio")
    /\ UNCHANGED <<b_background, b_captions, b_media, b_output>>
    /\ UNCHANGED <<caption_vars, punct_vars, file_vars, slide_vars>>

SetCaptions ==
    /\ \E file_path \in CaptionArgs : b_captions' = file_path
    /\ b_last' = Setter("set_captions")
    /\ UNCHANGED <<b_background, b_audio, b_media, b_output>>
    /\ UNCHANGED <<caption_vars, punct_vars, file_vars, slide_vars>>

\* The path is stored before os.makedirs runs, so it stays stored when
\* os.makedirs raises.
SetOutputPath ==
    /\ \E output_path \in OutputPaths, mk \in MakedirsOutcomes :
          /\ b_output' = output_path
          /\ b_last' = IF mk = "fails"
                       THEN [NoCall EXCEPT !.op = "set_output_path", !.outcome = "raised",
                                           !.error = "OSError", !.check = "makedirs",
                                           !.makedirs = "failed"]
                       ELSE [Setter("set_output_path") EXCEPT !.makedirs = "ok"]
    /\ UNCHANGED <<b_background, b_audio, b_captions, b_media>>
    /\ UNCHANGED <<caption_vars, punct_vars, file_vars, slide_vars>>

BuildCommand ==
    /\ \E info \in InfoOutcomes, mk \in MakedirsOutcomes :
          LET b == BuildResult(b_background, b_audio, b_captions, b_media, b_output, info, mk)
          IN  b_last' = [NoCall EXCEPT
                            !.op = "build_command",
                            !.outcome = b.outcome,
                            !.error = b.error,
                            !.check = b.check,
                            !.cmd = b.cmd,
                            !.value = IF b.outcome = "returned" THEN "cmd" ELSE "none",
                            !.makedirs = IF b.check = "makedirs" THEN "failed"
                                         ELSE IF b.outcome = "returned" THEN "ok"
                                         ELSE "not_reached"]
    /\ UNCHANGED <<b_background, b_audio, b_captions, b_media, b_output>>
    /\ UNCHANGED <<caption_vars, punct_vars, file_vars, slide_vars>>

Execute ==
    /\ \E mk1 \in MakedirsOutcomes, info \in InfoOutcomes, mk2 \in MakedirsOutcomes,
          lookup \in InfoOutcomes, ff \in FfmpegOutcomes :
          b_last' = ExecuteResult(b_background, b_audio, b_captions, b_media, b_output,
                                  mk1, info, mk2, lookup, ff)
    /\ UNCHANGED <<b_background, b_audio, b_captions, b_media, b_output>>
    /\ UNCHANGED <<caption_vars, punct_vars, file_vars, slide_vars>>

BuilderSpecInit ==
    /\ BuilderInit
    /\ CaptionIdle
    /\ PunctIdle
    /\ FileIdle
    /\ SlideIdle

BuilderNext ==
    \/ SetMediaUtils
    \/ SetBackgroundImage
    \/ SetBackgroundVideo
    \/ SetAudio
    \/ SetCaptions
    \/ SetOutputPath
    \/ BuildCommand
    \/ Execute

BuilderSpec == BuilderSpecInit /\ [][BuilderNext]_vars

BuildCalled == b_last.op = "build_command"

RaisedValueError ==
    /\ b_last.outcome = "raised"
    /\ b_last.error = "ValueError"
    /\ b_last.cmd = <<>>
    /\ b_last.value = "none"

ReturnedCommand ==
    /\ b_last.outcome = "returned"
    /\ b_last.value = "cmd"
    /\ b_last.cmd # <<>>
    /\ b_last.cmd[Len(b_last.cmd)] = b_output

VideoWithCaptionFileOnly ==
    /\ b_background.type = "video"
    /\ b_captions = "file"
    /\ b_audio = "none"

(***************************************************************************)
(* C14 as stated: build_command raises ValueError and returns no command   *)
(* when no background is set and when the background is an image and no    *)
(* audio file is set, whatever else was set; with a video background, a    *)
(* caption file and no audio it returns a command, with or without         *)
(* media_utils, whose last element is the configured output path.          *)
(***************************************************************************)
C14_BuildValidation ==
    BuildCalled =>
        /\ b_background.type = "none" => RaisedValueError
        /\ (b_background.type = "image" /\ b_audio = "none") => RaisedValueError
        /\ VideoWithCaptionFileOnly => ReturnedCommand

(***************************************************************************)
(* C14 amended: the two rejections hold as stated; with a video            *)
(* background, a caption file and no audio, build_command returns the      *)
(* command ending in the output path provided the directory of the         *)
(* output path exists or can be created, and raises OSError from           *)
(* os.makedirs otherwise.                                                  *)
(***************************************************************************)
C14_BuildValidationMakedirs ==
    BuildCalled =>
        /\ b_background.type = "none" => RaisedValueError
        /\ (b_background.type = "image" /\ b_audio = "none") => RaisedValueError
        /\ VideoWithCaptionFileOnly =>
              \/ b_last.makedirs = "ok" /\ ReturnedCommand
              \/ /\ b_last.makedirs = "failed"
                 /\ b_last.outcome = "raised"
                 /\ b_last.error = "OSError"
                 /\ b_last.cmd = <<>>

\* a command built without media_utils, for a path set by set_output_path
C14_Witness ==
    /\ BuildCalled
    /\ VideoWithCaptionFileOnly
    /\ b_media = "none"
    /\ b_output # DefaultOutputPath
    /\ ReturnedCommand

(***************************************************************************)
(* C16: execute returns True exactly when build_command succeeded and      *)
(* execute_ffmpeg_command reported success; with media_utils unset, with   *)
(* a configuration build_command rejects, with a duration lookup that      *)
(* fails, or with ffmpeg reporting failure it returns False; it never      *)
(* raises; and ffmpeg is not invoked when build_command failed.            *)
(***************************************************************************)
C16_ExecuteOutcome ==
    b_last.op = "execute" =>
        /\ b_last.outcome = "returned"
        /\ b_last.value \in {"true", "false"}
        /\ b_last.value = "true" <=> (b_last.build = "ok" /\ b_last.ffmpeg = "success")
        /\ b_media = "none" => b_last.value = "false"
        /\ ConfigError(b_background, b_audio, b_captions) # "none" => b_last.value = "false"
        /\ b_last.check \in {"audio_info", "duration"} => b_last.value = "false"
        /\ b_last.lookup = "raised" => b_last.value = "false"
        /\ b_last.ffmpeg \in {"failure", "raised"} => b_last.value = "false"
        /\ b_last.build # "ok" => b_last.ffmpeg = "not_invoked"

\* build_command raised inside execute, which answered False without
\* calling ffmpeg
C16_Witness ==
    /\ b_last.op = "execute"
    /\ b_media = "set"
    /\ b_last.build = "raised"
    /\ b_last.error = "ValueError"
    /\ b_last.value = "false"
    /\ b_last.ffmpeg = "not_invoked"

(***************************************************************************)
(* The file endpoints GET /tts/file and GET /caption/file.  A path is a    *)
(* flag (absolute or relative) and a sequence of components, a component   *)
(* a string of code points; the process runs in /app, and the file system  *)
(* holds the directories /app, /app/output, /app/output2 and /tmp and one  *)
(* file f in each of them.  Symbolic links are not modelled.  The handlers *)
(* keep no state between requests, so a behaviour is one request.          *)
(***************************************************************************)
Slash == <<47>>
DotDot == <<46, 46>>
Dot == <<46>>
NameApp == <<97, 112, 112>>
NameOutput == <<111, 117, 116, 112, 117, 116>>
NameOutput2 == <<111, 117, 116, 112, 117, 116, 50>>
NameTmp == <<116, 109, 112>>
NameF == <<102>>

Cwd == <<NameApp>>

Dirs == {<<>>, <<NameApp>>, <<NameApp, NameOutput>>, <<NameApp, NameOutput2>>, <<NameTmp>>}

Files == {<<NameApp, NameF>>, <<NameApp, NameOutput, NameF>>,
          <<NameApp, NameOutput2, NameF>>, <<NameTmp, NameF>>}

Components == {NameApp, NameOutput, NameOutput2, NameTmp, NameF, DotDot, Dot}

Paths == [absolute : BOOLEAN, parts : SeqsUpTo(Components, MaxPathLen)]

\* The components of the absolute, normalised path: "." is dropped, ".."
\* removes the component before it and is dropped at the root.
RECURSIVE Normalise(_, _)
Normalise(done, rest) ==
    IF rest = <<>> THEN done
    ELSE IF Head(rest) = Dot THEN Normalise(done, Tail(rest))
    ELSE IF Head(rest) = DotDot
         THEN Normalise(IF done = <<>> THEN <<>> ELSE SubSeq(done, 1, Len(done) - 1),
                        Tail(rest))
    ELSE Normalise(Append(done, Head(rest)), Tail(rest))

\* Path(path).resolve()
Resolve(path) ==
    Normalise(<<>>, IF path.absolute THEN path.parts ELSE Cwd \o path.parts)

\* str() of a resolved path
RECURSIVE PathStr(_)
PathStr(parts) ==
    IF parts = <<>> THEN Slash
    ELSE IF Len(parts) = 1 THEN Slash \o parts[1]
    ELSE PathStr(SubSeq(parts, 1, Len(parts) - 1)) \o Slash \o parts[Len(parts)]

\* str.startswith
StartsWith(str, prefix) ==
    /\ Len(prefix) <= Len(str)
    /\ SubSeq(str, 1, Len(prefix)) = prefix

Allowed == Resolve([absolute |-> FALSE, parts |-> <<Dot, NameOutput>>])

Exists(p) == p \in Files \/ p \in Dirs

\* get_file: 403 outside the allowed prefix, 404 for a missing path, else
\* a FileResponse, which sends a regular file and fails on a directory.
GetFile(endpoint, path) ==
    LET p == Resolve(path)
    IN  IF ~StartsWith(PathStr(p), PathStr(Allowed))
        THEN [endpoint |-> endpoint, status |-> "403", served |-> <<>>]
        ELSE IF ~Exists(p)
             THEN [endpoint |-> endpoint, status |-> "404", served |-> <<>>]
        ELSE IF p \in Files
             THEN [endpoint |-> endpoint, status |-> "200", served |-> p]
        ELSE [endpoint |-> endpoint, status |-> "500", served |-> <<>>]

TtsGetFile ==
    /\ f_response = NoResponse
    /\ \E path \in Paths :
          /\ f_path' = path
          /\ f_response' = GetFile("tts", path)
    /\ UNCHANGED <<caption_vars, punct_vars, builder_vars, slide_vars>>

CaptionGetFile ==
    /\ f_response = NoResponse
    /\ \E path \in Paths :
          /\ f_path' = path
          /\ f_response' = GetFile("caption", path)
    /\ UNCHANGED <<caption_vars, punct_vars, builder_vars, slide_vars>>

FileInit ==
    /\ FileIdle
    /\ CaptionIdle
    /\ PunctIdle
    /\ BuilderInit
    /\ SlideIdle

FileNext ==
    \/ TtsGetFile
    \/ CaptionGetFile

FileSpec == FileInit /\ [][FileNext]_vars

\* the resolved path is the allowed directory or lies below it
InsideAllowed(p) ==
    /\ Len(p) >= Len(Allowed)
    /\ SubSeq(p, 1, Len(Allowed)) = Allowed

(***************************************************************************)
(* C15: GET /tts/file and GET /caption/file send a file only when its      *)
(* resolved path lies inside the resolved ./output directory, and every    *)
(* path that resolves outside it, a sibling directory whose name begins    *)
(* with "output" included, is answered with 403 and no file content.       *)
(***************************************************************************)
C15_OnlyInsideOutput ==
    f_response.status # "none" =>
        /\ f_response.status = "200" =>
              /\ f_response.served = Resolve(f_path)
              /\ InsideAllowed(f_response.served)
        /\ ~InsideAllowed(Resolve(f_path)) =>
              /\ f_response.status = "403"
              /\ f_response.served = <<>>

(***************************************************************************)
(* Vocabulary of the word-mode text properties.                            *)
(***************************************************************************)
IsWordToken(i) == ~is_punctuation(captions[i].text)

\* a word stands before position i of the input
WordBefore(i) == \E j \in 1 .. i - 1 : IsWordToken(j)

NotSpace(ch) == ch # 32

\* All the text of the segments, lines and segments in order, without the
\* separating spaces.
RECURSIVE OutputChars(_)
OutputChars(k) ==
    IF k > Len(segments)
    THEN <<>>
    ELSE SelectSeq(Join(segments[k].text), NotSpace) \o OutputChars(k + 1)

\* The texts of the words and of the punctuation tokens that follow a word.
RECURSIVE KeptChars(_)
KeptChars(i) ==
    IF i > Len(captions)
    THEN <<>>
    ELSE (IF IsWordToken(i) \/ WordBefore(i) THEN captions[i].text ELSE <<>>)
         \o KeptChars(i + 1)

(***************************************************************************)
(* C21: in word mode (lines >= 1) a punctuation token is dropped, leaving  *)
(* every line as it was, exactly when no word stands before it in the      *)
(* input; a punctuation token after any word is appended to the current    *)
(* line, also right after a flush or a line advance; the returned text is  *)
(* that of the words and of the punctuation tokens that follow a word.     *)
(***************************************************************************)
C21_PunctStep ==
    ( /\ mode = "english"
      /\ pc = "loop"
      /\ idx <= Len(captions)
      /\ idx' = idx + 1
      /\ lines >= 1
      /\ is_punctuation(captions[idx].text) )
    => /\ segments' = segments
       /\ IF WordBefore(idx)
          THEN /\ current_line < lines
               /\ current_segment_texts' =
                     [current_segment_texts EXCEPT
                         ![current_line + 1] = @ \o captions[idx].text]
          ELSE /\ current_segment_texts' = current_segment_texts
               /\ ~AnyText(current_segment_texts)

C21_ReturnedText ==
    (Returned /\ mode = "english" /\ lines >= 1) => OutputChars(1) = KeptChars(1)

C21_PunctuationDropped == [][C21_PunctStep]_vars /\ []C21_ReturnedText

\* "," then "a": the comma is dropped and the only line is "a".
C21_Witness ==
    /\ Returned
    /\ mode = "english"
    /\ lines >= 1
    /\ Len(captions) = 2
    /\ captions[1].text = <<44>>
    /\ captions[2].text = <<97>>
    /\ OutputChars(1) = <<97>>

(***************************************************************************)
(* Vocabulary of the sentence-mode chunk properties.                       *)
(***************************************************************************)
\* the positions in segments of the chunks of token t
ChunksOf(t) == {k \in 1 .. Len(segments) : seg_src[k] = t}

RECURSIVE SumDurations(_, _)
SumDurations(t, k) ==
    IF k = 0
    THEN RInt(0)
    ELSE RAdd(IF seg_src[k] = t THEN SegDuration(k) ELSE RInt(0),
              SumDurations(t, k - 1))

\* The durations of all the chunks of token t, added up.
TokenChunkTime(t) == SumDurations(t, Len(segments))

\* chunk k got 0.5 s in place of a smaller proportional share
Floored(k) == RLt(Share(k), MIN_DURATION)

(***************************************************************************)
(* C22: in sentence mode, before the overlap post-pass, the durations of   *)
(* the chunks of a token add up to at least the token's duration           *)
(* end_ts - start_ts, and to exactly that when no chunk was raised to the  *)
(* 0.5 s floor: nothing is taken back from the other chunks.               *)
(***************************************************************************)
C22_FloorNotRebalanced ==
    (mode = "international" /\ PreCorrection) =>
        \A t \in 1 .. Len(captions) :
            ChunksOf(t) # {} =>
                /\ TokenChars(t) > 0
                /\ RLe(TokenDuration(t), TokenChunkTime(t))
                /\ TokenChunkTime(t) = TokenDuration(t)
                       <=> \A k \in ChunksOf(t) : ~Floored(k)

\* A token of two chunks, one of them floored, whose last chunk ends after
\* the token's end_ts; and a token whose chunks add up to its duration.
C22_Witness ==
    /\ mode = "international"
    /\ pc = "post"
    /\ ValidConfig
    /\ ValidInput
    /\ \E t \in 1 .. Len(captions) :
          /\ Cardinality(ChunksOf(t)) >= 2
          /\ \E k \in ChunksOf(t) : Floored(k)
          /\ \E k \in ChunksOf(t) : RLt(captions[t].end_ts, segments[k].end_ts)
          /\ RLt(TokenDuration(t), TokenChunkTime(t))

(***************************************************************************)
(* C23: in sentence mode (lines >= 1, max_length >= 1) a token that        *)
(* yields p parts produces ceil(p / lines) segments; their lines, read in  *)
(* order, are the p parts in order followed by empty strings only, so      *)
(* every segment but the token's last is full and padding is at the tail   *)
(* of the last; every segment holds parts of one token only.               *)
(***************************************************************************)
C23_Grouping ==
    ValidConfig =>
        \A t \in 1 .. Len(captions) :
            IntlProcessed(t) =>
                LET parts == SplitParts(Strip(captions[t].text), max_length)
                    p == Len(parts)
                    n == CeilDiv(p, lines)
                    all == LinesFrom(t, 1)
                IN  /\ Cardinality(ChunksOf(t)) = n
                    /\ \A k \in ChunksOf(t) : Len(segments[k].text) = lines
                    /\ Len(all) = n * lines
                    /\ SubSeq(all, 1, p) = parts
                    /\ \A j \in 1 .. p : all[j] # <<>>
                    /\ \A j \in p + 1 .. n * lines : all[j] = <<>>
                    /\ \A k \in ChunksOf(t) : \A k2 \in ChunksOf(t) :
                          \A m \in 1 .. Len(segments) :
                              (k <= m /\ m <= k2) => m \in ChunksOf(t)

\* Three parts on two lines: a full segment and one with a padded line,
\* followed by the segments of another token.
C23_Witness ==
    /\ mode = "international"
    /\ pc \in {"post", "done"}
    /\ result # "raised"
    /\ ValidConfig
    /\ lines = 2
    /\ Len(captions) = 2
    /\ Len(SplitParts(Strip(captions[1].text), max_length)) = 3
    /\ Len(segments) >= 3
    /\ segments[1].text[2] # <<>>
    /\ segments[2].text[1] # <<>>
    /\ segments[2].text[2] = <<>>
    /\ seg_src[3] = 2

(***************************************************************************)
(* MultiImageVideoBuilder.build (app/services/slideshow_orchestrator.py).  *)
(* The images are numbered from 0; an optional list argument is given by   *)
(* its length (and, for image_durations, whether all entries are           *)
(* positive); ffmpeg, MediaUtils and the file system answer as the         *)
(* environment chooses.  A step of s_trace records what was started and    *)
(* how it ended.                                                           *)
(***************************************************************************)
NoImage == 0 - 1

Step(step, image, outcome) == [step |-> step, image |-> image, outcome |-> outcome]

DurationLists ==
    {NoList}
        \cup {[given |-> TRUE, len |-> l, positive |-> TRUE] : l \in 0 .. MaxImages}
        \cup {[given |-> TRUE, len |-> l, positive |-> FALSE] : l \in 1 .. MaxImages}

EffectLists ==
    {NoList} \cup {[given |-> TRUE, len |-> l, positive |-> TRUE] : l \in 0 .. MaxImages}

SlideArgs ==
    [images : 0 .. MaxImages, audio_file : BOOLEAN, captions_file : BOOLEAN,
     image_durations : DurationLists, effect_configs : EffectLists,
     temp_dir : BOOLEAN, keep_temps : BOOLEAN]

SlideInit ==
    /\ s_args \in SlideArgs
    /\ s_pc = "call"
    /\ s_idx = 0
    /\ s_dir \in (IF s_args.temp_dir THEN {"absent", "present"} ELSE {"absent"})
    /\ s_trace = <<>>
    /\ s_pending = "none"
    /\ s_cleanup = "none"
    /\ s_result = "none"
    /\ CaptionIdle
    /\ PunctIdle
    /\ BuilderInit
    /\ FileIdle

Min(a, b) == IF a <= b THEN a ELSE b

\* The length of durations after line 307-308: _compute_durations returns
\* one entry per image; without an audio file image_durations is taken as
\* it is.
DurationsLen(args) ==
    IF args.audio_file THEN args.images ELSE args.image_durations.len

\* What _compute_durations does when it is called: "ok" or "raise".
ComputeDurations(args, info) ==
    IF args.image_durations.given
    THEN IF args.image_durations.len # args.images THEN "raise"
         ELSE IF ~args.image_durations.positive THEN "raise"
         ELSE "ok"
    ELSE IF info = "duration" THEN "ok" ELSE "raise"

\* The number of iterations of the loop over zip(images, durations,
\* effects); effects has one entry per image.
RenderCount(args) == Min(args.images, DurationsLen(args))

\* The try block is left with p: "true", "false" or "raise".
Leave(p) ==
    /\ s_pending' = p
    /\ s_pc' = "cleanup"

PendingOf(outcome) ==
    IF outcome = "success" THEN "true"
    ELSE IF outcome = "failure" THEN "false" ELSE "raise"

\* The two argument checks, then _make_workdir.
SlideEnter ==
    /\ s_pc = "call"
    /\ IF s_args.images = 0 \/ (~s_args.image_durations.given /\ ~s_args.audio_file)
       THEN /\ s_pc' = "done"
            /\ s_result' = "false"
            /\ s_dir' = s_dir
       ELSE \E mk \in MakedirsOutcomes :
               IF mk = "fails"
               THEN /\ s_pc' = "done"
                    /\ s_result' = "raised"
                    /\ s_dir' = s_dir
               ELSE /\ s_pc' = "durations"
                    /\ s_result' = s_result
                    /\ s_dir' = "present"
    /\ UNCHANGED <<s_args, s_idx, s_trace, s_pending, s_cleanup>>
    /\ UNCHANGED <<caption_vars, punct_vars, builder_vars, file_vars>>

\* durations and effects
SlideDurations ==
    /\ s_pc = "durations"
    /\ \E info \in InfoOutcomes :
          IF s_args.audio_file /\ ComputeDurations(s_args, info) = "raise"
          THEN Leave("raise")
          ELSE IF s_args.effect_configs.given
                    /\ s_args.effect_configs.len # s_args.images
               THEN Leave("false")
               ELSE /\ s_pc' = IF RenderCount(s_args) = 0 THEN "concat" ELSE "render"
                    /\ s_pending' = s_pending
    /\ s_idx' = 0
    /\ UNCHANGED <<s_args, s_dir, s_trace, s_cleanup, s_result>>
    /\ UNCHANGED <<caption_vars, punct_vars, builder_vars, file_vars>>

\* One iteration of the rendering loop.
SlideRender ==
    /\ s_pc = "render"
    /\ s_idx < RenderCount(s_args)
    /\ \E ff \in FfmpegOutcomes :
          /\ s_trace' = Append(s_trace, Step("render", s_idx, ff))
          /\ IF ff = "success"
             THEN /\ s_idx' = s_idx + 1
                  /\ s_pc' = IF s_idx + 1 = RenderCount(s_args) THEN "concat" ELSE "render"
                  /\ s_pending' = s_pending
             ELSE /\ Leave(PendingOf(ff))
                  /\ s_idx' = s_idx
    /\ UNCHANGED <<s_args, s_dir, s_cleanup, s_result>>
    /\ UNCHANGED <<caption_vars, punct_vars, builder_vars, file_vars>>

\* _concat_videos: the list file, the stream copy, and the re-encode when
\* the stream copy failed.
SlideConcat ==
    /\ s_pc = "concat"
    /\ \E wr \in MakedirsOutcomes, ff1 \in FfmpegOutcomes, ff2 \in FfmpegOutcomes :
          IF wr = "fails"
          THEN /\ Leave("raise")
               /\ s_trace' = s_trace
          ELSE IF ff1 = "failure"
               THEN /\ s_trace' = s_trace \o <<Step("concat", NoImage, ff1),
                                               Step("concat_reencode", NoImage, ff2)>>
                    /\ IF ff2 = "success"
                       THEN s_pc' = "mux" /\ s_pending' = s_pending
                       ELSE Leave(PendingOf(ff2))
               ELSE /\ s_trace' = Append(s_trace, Step("concat", NoImage, ff1))
                    /\ IF ff1 = "success"
                       THEN s_pc' = "mux" /\ s_pending' = s_pending
                       ELSE Leave(PendingOf(ff1))
    /\ UNCHANGED <<s_args, s_idx, s_dir, s_cleanup, s_result>>
    /\ UNCHANGED <<caption_vars, punct_vars, builder_vars, file_vars>>

\* _mux_audio_and_optional_captions: ffmpeg when there is an audio or a
\* caption file, a plain copy of the merged video otherwise.
SlideMux ==
    /\ s_pc = "mux"
    /\ \E mk \in MakedirsOutcomes, ff \in FfmpegOutcomes :
          IF mk = "fails"
          THEN /\ Leave("raise")
               /\ s_trace' = s_trace
          ELSE IF s_args.audio_file \/ s_args.captions_file
               THEN /\ s_trace' = Append(s_trace, Step("mux", NoImage, ff))
                    /\ Leave(PendingOf(ff))
               ELSE /\ ff # "failure"
                    /\ s_trace' = Append(s_trace, Step("copy", NoImage, ff))
                    /\ Leave(PendingOf(ff))
    /\ UNCHANGED <<s_args, s_idx, s_dir, s_cleanup, s_result>>
    /\ UNCHANGED <<caption_vars, punct_vars, builder_vars, file_vars>>

CleanupIgnoresKeep(keep_temps, dir, rm) ==
    IF dir = "present"
    THEN IF rm = "ok"
         THEN [dir |-> "absent", cleanup |-> "removed"]
         ELSE [dir |-> dir, cleanup |-> "failed"]
    ELSE [dir |-> dir, cleanup |-> "skipped"]

\* The finally block: shutil.rmtree(ignore_errors=True) on an existing
\* directory unless keep_temps; rm is what the removal achieves.
Cleanup(keep_temps, dir, rm) ==
    IF ~keep_temps /\ dir = "present"
    THEN IF rm = "ok"
         THEN [dir |-> "absent", cleanup |-> "removed"]
         ELSE [dir |-> dir, cleanup |-> "failed"]
    ELSE [dir |-> dir, cleanup |-> "skipped"]

SlideCleanup ==
    /\ s_pc = "cleanup"
    /\ \E rm \in MakedirsOutcomes :
          LET c == Cleanup(s_args.keep_temps, s_dir, rm)
          IN  /\ s_dir' = c.dir
              /\ s_cleanup' = c.cleanup
    /\ s_result' = IF s_pending = "raise" THEN "raised" ELSE s_pending
    /\ s_pc' = "done"
    /\ UNCHANGED <<s_args, s_idx, s_trace, s_pending>>
    /\ UNCHANGED <<caption_vars, punct_vars, builder_vars, file_vars>>

SlideNext ==
    \/ SlideEnter
    \/ SlideDurations
    \/ SlideRender
    \/ SlideConcat
    \/ SlideMux
    \/ SlideCleanup

SlideSpec == SlideInit /\ [][SlideNext]_vars

(***************************************************************************)
(* Vocabulary of the build properties.                                     *)
(***************************************************************************)
\* the working directory was prepared by this call
Prepared == s_pc \in {"durations", "render", "concat", "mux", "cleanup"} \/ s_pending # "none"

\* the step at position i of the trace when every image is rendered, the
\* segments are concatenated and the result is muxed, in this order
ExpectedStep(i) ==
    IF i <= s_args.images THEN "render"
    ELSE IF i = s_args.images + 1 THEN "concat"
    ELSE IF s_trace[i - 1].step = "concat" /\ s_trace[i - 1].outcome = "failure"
         THEN "concat_reencode"
    ELSE IF s_args.audio_file \/ s_args.captions_file THEN "mux" ELSE "copy"

IsLastStep(step) == step \in {"mux", "copy"}

(***************************************************************************)
(* C24: build renders a segment for every image, in image order, then      *)
(* concatenates, then does the final mux; a step is started only after     *)
(* every earlier step succeeded (the re-encoding concat being the second   *)
(* attempt of the concatenation); after a failed step no later step is     *)
(* started and build returns False; True is returned only after the final  *)
(* mux succeeded.                                                          *)
(***************************************************************************)
C24_StepOrder ==
    /\ \A i \in 1 .. Len(s_trace) :
          /\ s_trace[i].step = ExpectedStep(i)
          /\ s_trace[i].step = "render" => s_trace[i].image = i - 1
          /\ i < Len(s_trace) =>
                \/ s_trace[i].outcome = "success"
                \/ /\ s_trace[i].step = "concat"
                   /\ s_trace[i].outcome = "failure"
                   /\ s_trace[i + 1].step = "concat_reencode"
    /\ (s_pc = "done" /\ s_trace # <<>> /\ s_trace[Len(s_trace)].outcome = "failure") =>
          s_result = "false"
    /\ s_result = "true" =>
          /\ s_trace # <<>>
          /\ IsLastStep(s_trace[Len(s_trace)].step)
          /\ s_trace[Len(s_trace)].outcome = "success"

(***************************************************************************)
(* C25 as stated: once build has prepared its working directory, the       *)
(* directory is gone when build exits, whether it returns True, returns    *)
(* False or raises, and it is left in place only when keep_temps is true.  *)
(***************************************************************************)
C25_WorkdirRemoved ==
    (s_pc = "done" /\ Prepared) =>
        IF s_args.keep_temps THEN s_dir = "present" ELSE s_dir = "absent"

(***************************************************************************)
(* C25 amended: once build has prepared its working directory, every exit  *)
(* (True, False or an exception) goes through the removal of the           *)
(* directory unless keep_temps is true; the removal ignores errors, so     *)
(* the directory is gone when build exits unless the removal itself        *)
(* failed; with keep_temps it is left in place.                            *)
(***************************************************************************)
C25_WorkdirRemovalAttempted ==
    (s_pc = "done" /\ Prepared) =>
        IF s_args.keep_temps
        THEN s_dir = "present" /\ s_cleanup = "skipped"
        ELSE /\ s_cleanup \in {"removed", "failed"}
             /\ s_cleanup = "removed" <=> s_dir = "absent"

\* An image_durations validation error that left build by an exception,
\* with the caller's temp_dir removed.
C25_Witness ==
    /\ s_pc = "done"
    /\ Prepared
    /\ s_result = "raised"
    /\ s_args.image_durations.given
    /\ s_args.temp_dir
    /\ ~s_args.keep_temps
    /\ s_cleanup = "removed"
    /\ s_dir = "absent"

(***************************************************************************)
(* Vocabulary of the word conservation property.                           *)
(***************************************************************************)
\* a space-delimited unit of a line without the punctuation attached to it
RECURSIVE StripTrailingPunct(_)
StripTrailingPunct(unit) ==
    IF unit # <<>> /\ IsPunctChar(unit[Len(unit)])
    THEN StripTrailingPunct(SubSeq(unit, 1, Len(unit) - 1))
    ELSE unit

RECURSIVE WordsOfLines(_)
WordsOfLines(texts) ==
    IF texts = <<>>
    THEN <<>>
    ELSE LET units == Split(Head(texts))
         IN  [j \in 1 .. Len(units) |-> StripTrailingPunct(units[j])]
                 \o WordsOfLines(Tail(texts))

\* The words of the segments, lines and segments read in order.
RECURSIVE OutputWords(_)
OutputWords(k) ==
    IF k > Len(segments)
    THEN <<>>
    ELSE WordsOfLines(segments[k].text) \o OutputWords(k + 1)

\* The texts of the non-punctuation tokens, in input order.
RECURSIVE InputWords(_)
InputWords(i) ==
    IF i > Len(captions)
    THEN <<>>
    ELSE (IF IsWordToken(i) THEN <<captions[i].text>> ELSE <<>>) \o InputWords(i + 1)

(***************************************************************************)
(* C26: in word mode with lines >= 1, the words read from the returned     *)
(* segments, line after line and segment after segment, are the            *)
(* non-punctuation tokens of the input, each once, whole and in input      *)
(* order, also for a word longer than max_length and for a word that       *)
(* triggers a flush.                                                       *)
(***************************************************************************)
C26_WordsConserved ==
    (Returned /\ mode = "english" /\ lines >= 1) => OutputWords(1) = InputWords(1)

\* Two words, the first longer than max_length, the second flushing it.
C26_Witness ==
    /\ Returned
    /\ mode = "english"
    /\ ValidConfig
    /\ Len(captions) = 2
    /\ IsWordToken(1)
    /\ IsWordToken(2)
    /\ Len(captions[1].text) > max_length
    /\ seg_src[Len(seg_src)] = Len(captions) + 1
    /\ Len(segments) >= 2
    /\ seg_src[Len(seg_src) - 1] = 2
    /\ OutputWords(1) = <<captions[1].text, captions[2].text>>

(***************************************************************************)
(* C27: in sentence mode (lines >= 1) the text of a token is conserved:    *)
(* for a CJK token the non-empty lines of its segments, concatenated,      *)
(* are the stripped text; for any other token these lines joined by        *)
(* single spaces are the token's words joined by single spaces.            *)
(***************************************************************************)
RECURSIVE JoinSpaces(_)
JoinSpaces(ss) ==
    IF ss = <<>> THEN <<>>
    ELSE IF Len(ss) = 1 THEN ss[1]
    ELSE Head(ss) \o <<32>> \o JoinSpaces(Tail(ss))

C27_TextConserved ==
    lines >= 1 =>
        \A t \in 1 .. Len(captions) :
            IntlProcessed(t) =>
                LET text == Strip(captions[t].text) IN
                IF IsCJK(text)
                THEN Join(TokenParts(t)) = text
                ELSE JoinSpaces(TokenParts(t)) = JoinSpaces(Split(text))

\* A token of words and a CJK token, each spread over several segments.
C27_Witness ==
    /\ mode = "international"
    /\ pc \in {"post", "done"}
    /\ result # "raised"
    /\ ValidConfig
    /\ \E t \in 1 .. Len(captions) :
          /\ IsCJK(Strip(captions[t].text))
          /\ Cardinality(ChunksOf(t)) >= 2
    /\ \E t \in 1 .. Len(captions) :
          /\ ~IsCJK(Strip(captions[t].text))
          /\ Cardinality(ChunksOf(t)) >= 2
          /\ Len(captions[t].text) > Len(JoinSpaces(TokenParts(t)))

(***************************************************************************)
(* C28: in sentence mode every chunk of a token but the token's last is    *)
(* built ending where the next chunk starts, so the overlap post-pass      *)
(* always clamps it: its returned end_ts is the next chunk's start_ts      *)
(* minus 0.05, and its duration is 0.05 s less than the duration it was    *)
(* assigned.                                                               *)
(***************************************************************************)
C28_PostPassStep ==
    (mode = "international" /\ pc = "post" /\ pc' = "done") =>
        \A k \in 1 .. Len(segments) - 1 :
            seg_src[k] = seg_src[k + 1] =>
                /\ segments[k].end_ts = segments[k + 1].start_ts
                /\ segments'[k].end_ts = RSub(segments'[k + 1].start_ts, GAP)
                /\ RSub(segments'[k].end_ts, segments'[k].start_ts)
                       = RSub(SegDuration(k), GAP)

C28_Returned ==
    (Returned /\ mode = "international") =>
        \A k \in 1 .. Len(segments) - 1 :
            seg_src[k] = seg_src[k + 1] =>
                segments[k].end_ts = RSub(segments[k + 1].start_ts, GAP)

C28_ChunksClamped == [][C28_PostPassStep]_vars /\ []C28_Returned

\* A returned token of three chunks.
C28_Witness ==
    /\ Returned
    /\ mode = "international"
    /\ ValidConfig
    /\ ValidInput
    /\ \E k \in 1 .. Len(segments) - 2 :
          /\ seg_src[k] = seg_src[k + 2]
          /\ segments[k].end_ts = RSub(segments[k + 1].start_ts, GAP)
          /\ segments[k + 1].end_ts = RSub(segments[k + 2].start_ts, GAP)

(***************************************************************************)
(* C29: in word mode with lines >= 1 and max_length >= 1 every returned    *)
(* segment has at least one non-empty line, also when the first token is   *)
(* longer than max_length.                                                 *)
(***************************************************************************)
C29_NoEmptySegment ==
    (Returned /\ mode = "english" /\ ValidConfig) =>
        \A k \in 1 .. Len(segments) : AnyText(segments[k].text)

(***************************************************************************)
(* Vocabulary of the empty-token property.                                 *)
(***************************************************************************)
IsBlankToken(t) == Strip(captions[t].text) = <<>>

\* the chunks of token t, as the timing loop receives them
ChunkGroups(t) == GroupParts(SplitParts(Strip(captions[t].text), max_length), lines)

\* the timing loop of token t takes the branch duration / len(segment_parts)
EvenDivisionTaken(t) == ChunkGroups(t) # <<>> /\ TotalChars(ChunkGroups(t)) = 0

\* The segments of the tokens from t on whose stripped text is not empty,
\* before the post-pass.
RECURSIVE SegmentsOfOthers(_)
SegmentsOfOthers(t) ==
    IF t > Len(captions)
    THEN <<>>
    ELSE (IF IsBlankToken(t) THEN <<>>
          ELSE CaptionSegments(captions[t], max_length, lines))
         \o SegmentsOfOthers(t + 1)

(***************************************************************************)
(* C30: in sentence mode a token whose stripped text is empty appends no   *)
(* segment and the returned list is the one the other tokens give by       *)
(* themselves; a token's chunks have a total character count of zero only  *)
(* when it has no chunks, so the even-division branch is never taken (for  *)
(* lines >= 1 and max_length >= 1).                                        *)
(***************************************************************************)
C30_BlankStep ==
    ( /\ mode = "international"
      /\ pc = "loop"
      /\ idx <= Len(captions)
      /\ idx' = idx + 1
      /\ IsBlankToken(idx) )
    => /\ segments' = segments
       /\ seg_src' = seg_src

C30_NoEvenDivision ==
    (mode = "international" /\ ValidConfig) =>
        /\ \A t \in 1 .. Len(captions) :
              /\ ~EvenDivisionTaken(t)
              /\ TotalChars(ChunkGroups(t)) = 0 <=> ChunkGroups(t) = <<>>
              /\ IntlProcessed(t) => (ChunksOf(t) = {} <=> IsBlankToken(t))
        /\ Returned => segments = PostPass(SegmentsOfOthers(1))

C30_BlankTokenFrame == [][C30_BlankStep]_vars /\ []C30_NoEvenDivision

\* A blank token between nothing and a token that gives two segments.
C30_Witness ==
    /\ Returned
    /\ mode = "international"
    /\ ValidConfig
    /\ Len(captions) = 2
    /\ IsBlankToken(1)
    /\ captions[1].text # <<>>
    /\ Len(segments) >= 2
    /\ \A k \in 1 .. Len(segments) : seg_src[k] = 2

====
